---- MODULE Spec2Model ----
(***************************************************************************)
(* Fixed-point arithmetic of src/src/fixed.rs.                             *)
(*                                                                         *)
(* Fixed wraps an i64 (type Int), FullFixed an i128 (type FullInt), and    *)
(* f64 is the Float the conversions go through.  None of these fits the    *)
(* model checker's native integers, so integers are kept as arbitrary      *)
(* precision values (a sign and a little-endian sequence of limbs of       *)
(* radix LimbBase) and the machine widths are applied explicitly: a        *)
(* checked operation panics or wraps modulo 2^w depending on the build     *)
(* profile, an `as` cast always wraps, an f64 is a 53-bit significand      *)
(* times a power of two rounded to nearest, ties to even.                  *)
(***************************************************************************)
EXTENDS Integers, Sequences, FiniteSets, TLC

\* ------------------------------------------------------------------------
\* Naturals as limb sequences, least significant limb first, no high zeros.
\* Carries and borrows are written in closed form (a carry enters limb i
\* when some lower limb generates one and every limb between propagates it),
\* so that only multiplication and division recurse, and only over limbs.
\* ------------------------------------------------------------------------
LimbBase == 32768

LimbBits == 15

SetMax(S) == CHOOSE m \in S : \A k \in S : k <= m

NTrim(s) ==
    LET nz == {i \in 1..Len(s) : s[i] # 0}
    IN  IF nz = {} THEN <<>> ELSE SubSeq(s, 1, SetMax(nz))

RECURSIVE NOfInt(_)
NOfInt(n) ==
    IF n = 0 THEN <<>> ELSE <<n % LimbBase>> \o NOfInt(n \div LimbBase)

Limb(s, i) == IF 1 <= i /\ i <= Len(s) THEN s[i] ELSE 0

NCmp(a, b) ==
    IF Len(a) # Len(b) THEN (IF Len(a) > Len(b) THEN 1 ELSE -1)
    ELSE LET D == {i \in 1..Len(a) : a[i] # b[i]}
         IN  IF D = {} THEN 0
             ELSE IF a[SetMax(D)] > b[SetMax(D)] THEN 1 ELSE -1

NAdd(a, b) ==
    LET n == (IF Len(a) > Len(b) THEN Len(a) ELSE Len(b)) + 1
        s == [i \in 1..n |-> Limb(a, i) + Limb(b, i)]
        carry(i) == \E j \in 1..(i - 1) :
                        /\ s[j] >= LimbBase
                        /\ \A k \in (j + 1)..(i - 1) : s[k] = LimbBase - 1
    IN  NTrim([i \in 1..n |->
                 (s[i] + (IF carry(i) THEN 1 ELSE 0)) % LimbBase])

\* a - b for a >= b
NSub(a, b) ==
    LET borrow(i) == \E j \in 1..(i - 1) :
                         /\ a[j] < Limb(b, j)
                         /\ \A k \in (j + 1)..(i - 1) : a[k] = Limb(b, k)
    IN  NTrim([i \in 1..Len(a) |->
                 (a[i] - Limb(b, i) - (IF borrow(i) THEN 1 ELSE 0)
                  + LimbBase) % LimbBase])

\* a * d for a single limb d
NMulSmall(a, d) ==
    NAdd([i \in 1..Len(a) |-> (a[i] * d) % LimbBase],
         [i \in 1..(Len(a) + 1) |-> (Limb(a, i - 1) * d) \div LimbBase])

\* the sum over i..Len(a) of the limb products that fall into column k:
\* the low halves of a[i] * b[k+1-i] and the high halves of a[i] * b[k-i]
RECURSIVE NMulColumn(_, _, _, _)
NMulColumn(a, b, k, i) ==
    IF i > Len(a) THEN 0
    ELSE ((a[i] * Limb(b, k + 1 - i)) % LimbBase)
         + ((a[i] * Limb(b, k - i)) \div LimbBase)
         + NMulColumn(a, b, k, i + 1)

NMul(a, b) ==
    LET n   == Len(a) + Len(b)
        col == [k \in 1..n |-> NMulColumn(a, b, k, 1)]
    IN  NAdd([k \in 1..n |-> col[k] % LimbBase],
             [k \in 1..(n + 1) |-> IF k = 1 THEN 0 ELSE col[k - 1] \div LimbBase])

\* a * 2^k
NShl(a, k) ==
    LET q == k \div LimbBits
        f == 2 ^ (k % LimbBits)
    IN  NTrim([i \in 1..(Len(a) + q + 1) |->
                 ((Limb(a, i - q) * f) % LimbBase)
                 + ((Limb(a, i - q - 1) * f) \div LimbBase)])

\* a \div 2^k
NShr(a, k) ==
    LET q == k \div LimbBits
        s == k % LimbBits
    IN  IF Len(a) <= q THEN <<>>
        ELSE NTrim([i \in 1..(Len(a) - q) |->
                      (Limb(a, i + q) \div (2 ^ s))
                      + (Limb(a, i + q + 1) % (2 ^ s)) * (2 ^ (LimbBits - s))])

\* a % 2^k
NLowBits(a, k) ==
    LET q == k \div LimbBits
    IN  NTrim([i \in 1..(q + 1) |->
                 IF i <= q THEN Limb(a, i)
                 ELSE Limb(a, i) % (2 ^ (k % LimbBits))])

NPow2(k) == NShl(<<1>>, k)

SmallBitLen(n) == CHOOSE k \in 0..LimbBits : n < 2 ^ k /\ (k = 0 \/ 2 ^ (k - 1) <= n)

NBitLen(a) ==
    IF a = <<>> THEN 0
    ELSE LimbBits * (Len(a) - 1) + SmallBitLen(a[Len(a)])

NIsOdd(a) == a # <<>> /\ a[1] % 2 = 1

\* the quotient limb: the estimate from the leading limbs, lowered until
\* est * d <= r (at most twice, d having its top bit set)
RECURSIVE QFix(_, _, _)
QFix(r, d, est) ==
    IF NCmp(NMulSmall(d, est), r) <= 0 THEN est ELSE QFix(r, d, est - 1)

QDigit(r, d) ==
    LET n   == Len(d)
        top == Limb(r, n + 1) * LimbBase + Limb(r, n)
        est == top \div d[n]
    IN  QFix(r, d, IF est > LimbBase - 1 THEN LimbBase - 1 ELSE est)

\* long division of the limbs i, i-1, .. 1 of a by d, the limbs above having
\* left the remainder r and the quotient limbs q
RECURSIVE NDivLoop(_, _, _, _, _)
NDivLoop(a, d, i, r, q) ==
    IF i = 0 THEN [q |-> q, r |-> r]
    ELSE LET r1 == NTrim(<<a[i]>> \o r)
             qd == QDigit(r1, d)
             r2 == NSub(r1, NMulSmall(d, qd))
             q2 == <<qd>> \o q
         IN  IF Len(r2) + Len(q2) >= 0
             THEN NDivLoop(a, d, i - 1, r2, q2)
             ELSE [q |-> q, r |-> r]

\* quotient and remainder of a by d, d # 0 (long division, the divisor
\* shifted so that its leading limb has its top bit set)
NDivMod(a, d) ==
    IF NCmp(a, d) < 0 THEN [q |-> <<>>, r |-> a]
    ELSE LET s   == LimbBits - SmallBitLen(d[Len(d)])
             an  == NShl(a, s)
             res == NDivLoop(an, NShl(d, s), Len(an), <<>>, <<>>)
         IN  [q |-> NTrim(res.q), r |-> NShr(res.r, s)]

\* ------------------------------------------------------------------------
\* Signed integers: a sign and a magnitude; zero is never negative.
\* ------------------------------------------------------------------------
ZMake(neg, mag) == [neg |-> neg /\ mag # <<>>, mag |-> mag]

ZOf(n) == IF n < 0 THEN ZMake(TRUE, NOfInt(-n)) ELSE ZMake(FALSE, NOfInt(n))

ZZero == ZMake(FALSE, <<>>)

ZNeg(x) == ZMake(~x.neg, x.mag)

ZAbs(x) == ZMake(FALSE, x.mag)

ZAdd(x, y) ==
    IF x.neg = y.neg THEN ZMake(x.neg, NAdd(x.mag, y.mag))
    ELSE IF NCmp(x.mag, y.mag) >= 0 THEN ZMake(x.neg, NSub(x.mag, y.mag))
    ELSE ZMake(y.neg, NSub(y.mag, x.mag))

ZSub(x, y) == ZAdd(x, ZNeg(y))

ZMul(x, y) == ZMake(x.neg # y.neg, NMul(x.mag, y.mag))

\* quotient truncated toward zero, as the integer `/` of the source
ZQuot(x, y) == ZMake(x.neg # y.neg, NDivMod(x.mag, y.mag).q)

ZCmp(x, y) ==
    IF x.neg /\ ~y.neg THEN -1
    ELSE IF ~x.neg /\ y.neg THEN 1
    ELSE IF x.neg THEN NCmp(y.mag, x.mag)
    ELSE NCmp(x.mag, y.mag)

ZLe(x, y) == ZCmp(x, y) <= 0

ZLt(x, y) == ZCmp(x, y) < 0

ZPow2(k) == ZMake(FALSE, NPow2(k))

\* ------------------------------------------------------------------------
\* Machine integers of width w bits, two's complement.
\* ------------------------------------------------------------------------
IntMin(w) == ZNeg(ZPow2(w - 1))

IntMax(w) == ZSub(ZPow2(w - 1), ZOf(1))

InRange(x, w) ==
    IF x.neg THEN NBitLen(x.mag) < w \/ x.mag = NPow2(w - 1)
    ELSE NBitLen(x.mag) < w

\* the value of the low w bits of x read as a signed integer
Wrap(x, w) ==
    LET low == NLowBits(x.mag, w)
        m   == IF x.neg /\ low # <<>> THEN NSub(NPow2(w), low) ELSE low
    IN  IF NBitLen(m) < w THEN ZMake(FALSE, m)
        ELSE ZMake(TRUE, NSub(NPow2(w), m))

\* ------------------------------------------------------------------------
\* Outcomes of an operation of the source: a value, or a panic.
\* ------------------------------------------------------------------------
Ok(x) == [ok |-> TRUE, v |-> x, err |-> "none"]

Panic(why) == [ok |-> FALSE, v |-> ZZero, err |-> why]

\* r, then F on its value; a panic unwinds through every later step
Bind(r, F(_)) == IF r.ok THEN F(r.v) ELSE r

VARIABLES
    overflow_checks,  \* the build profile: TRUE panics on integer overflow
                      \* (debug), FALSE wraps (release)
    lhs,              \* `self`, the left operand (a Fixed's stored i64)
    rhs,              \* `other`, the right operand
    fval,             \* an f64 on its way into or out of a Fixed
    ival,             \* an integer on its way into a Fixed
    op,               \* the operation performed last
    prev,             \* the operation performed before it
    arg1,             \* its operands as they were when it ran
    arg2,
    out,              \* its outcome
    third,            \* a third Fixed, compared with the other two
    epsilon,          \* the tolerance of `approximately`, as a Fixed
    approx,           \* the outcomes of the calls of `approximately` so far
    vector,           \* a Vector (or the Point of a translation)
    rotor,            \* a Rotor
    matrix,           \* a Matrix, the rows of its `elements`
    debug_assertions  \* the build profile: TRUE compiles debug_assert! in

vars == <<overflow_checks, lhs, rhs, fval, ival, op, prev, arg1, arg2, out,
          third, epsilon, approx, vector, rotor, matrix, debug_assertions>>

\* the scalar operators and conversions leave these as they are
others == <<third, epsilon, approx, vector, rotor, matrix, debug_assertions>>

IntBits == 64

FullIntBits == 128

FULL_FIXED_PRECISION_MULTIPLIER == 10

FIXED_DECIMAL == 100000

FULL_FIXED_DECIMAL == FIXED_DECIMAL * FULL_FIXED_PRECISION_MULTIPLIER

\* an integer operator of the language at width w: a result outside the width
\* panics when overflow checks are compiled in and wraps otherwise
Checked(x, w) ==
    IF InRange(x, w) THEN Ok(x)
    ELSE IF overflow_checks THEN Panic("overflow")
    ELSE Ok(Wrap(x, w))

FullInt_add(x, y) == Checked(ZAdd(x, y), FullIntBits)

FullInt_sub(x, y) == Checked(ZSub(x, y), FullIntBits)

FullInt_mul(x, y) == Checked(ZMul(x, y), FullIntBits)

\* integer division panics on a zero divisor and on MIN / -1 in every build
FullInt_div(x, y) ==
    IF y = ZZero THEN Panic("divide_by_zero")
    ELSE IF x = IntMin(FullIntBits) /\ y = ZOf(-1) THEN Panic("overflow")
    ELSE Ok(ZQuot(x, y))

\* a widening that forgets the extended scale
FullFixed_from_Fixed_unscaled(value) == FullInt_mul(value, ZOf(1))

\* impl From<&Fixed> for FullFixed
FullFixed_from_Fixed(value) ==
    FullInt_mul(value, ZOf(FULL_FIXED_PRECISION_MULTIPLIER))

\* a narrowing that rounds toward minus infinity instead of toward zero
Fixed_from_FullFixed_floor(value) ==
    LET q == ZQuot(value, ZOf(FULL_FIXED_PRECISION_MULTIPLIER))
        exact == ZMul(q, ZOf(FULL_FIXED_PRECISION_MULTIPLIER)) = value
    IN  Ok(Wrap(IF value.neg /\ ~exact THEN ZSub(q, ZOf(1)) ELSE q, IntBits))

\* a narrowing that rounds toward plus infinity instead of toward zero
Fixed_from_FullFixed_ceil(value) ==
    LET q == ZQuot(value, ZOf(FULL_FIXED_PRECISION_MULTIPLIER))
        exact == ZMul(q, ZOf(FULL_FIXED_PRECISION_MULTIPLIER)) = value
    IN  Ok(Wrap(IF ~value.neg /\ ~exact THEN ZAdd(q, ZOf(1)) ELSE q, IntBits))

\* a narrowing that rounds to the nearest integer, halves away from zero
Fixed_from_FullFixed_rounding(value) ==
    LET k == ZOf(FULL_FIXED_PRECISION_MULTIPLIER)
        q == ZQuot(value, k)
        r == ZAbs(ZSub(value, ZMul(q, k)))
        up == ZLe(k, ZAdd(r, r))
        step == IF value.neg THEN ZOf(-1) ELSE ZOf(1)
    IN  Ok(Wrap(IF up THEN ZAdd(q, step) ELSE q, IntBits))

\* impl From<FullFixed> for Fixed: divide, then the `as Int` cast
Fixed_from_FullFixed(value) ==
    Bind(FullInt_div(value, ZOf(FULL_FIXED_PRECISION_MULTIPLIER)),
         LAMBDA q : Ok(Wrap(q, IntBits)))

\* a wide multiply that divides by the base scale only
FullFixed_mul_base_scale(self, other) ==
    Bind(FullInt_mul(self, other),
         LAMBDA p : FullInt_div(p, ZOf(FIXED_DECIMAL)))

\* a wide multiply whose division rounds toward minus infinity
FullFixed_mul_floor(self, other) ==
    Bind(FullInt_mul(self, other),
         LAMBDA p :
             LET q == ZQuot(p, ZOf(FULL_FIXED_DECIMAL))
                 exact == ZMul(q, ZOf(FULL_FIXED_DECIMAL)) = p
             IN  Ok(IF p.neg /\ ~exact THEN ZSub(q, ZOf(1)) ELSE q))

\* impl Mul for FullFixed
FullFixed_mul(self, other) ==
    Bind(FullInt_mul(self, other),
         LAMBDA p : FullInt_div(p, ZOf(FULL_FIXED_DECIMAL)))

\* a wide divide that returns zero for a zero divisor instead of dividing
FullFixed_div_guarded(self, other) ==
    IF other = ZZero THEN Ok(ZZero)
    ELSE Bind(FullInt_mul(self, ZOf(FULL_FIXED_DECIMAL)),
              LAMBDA p : FullInt_div(p, other))

\* a wide divide that scales the dividend by the base scale only
FullFixed_div_base_scale(self, other) ==
    Bind(FullInt_mul(self, ZOf(FIXED_DECIMAL)),
         LAMBDA p : FullInt_div(p, other))

\* impl Div for FullFixed
FullFixed_div(self, other) ==
    Bind(FullInt_mul(self, ZOf(FULL_FIXED_DECIMAL)),
         LAMBDA p : FullInt_div(p, other))

\* the add and sub instances of the macro exchanged
fullfixed_binop_swapped(func, self, other) ==
    CASE func = "add" -> FullInt_sub(self, other)
      [] func = "sub" -> FullInt_add(self, other)
      [] func = "mul" -> FullFixed_mul(self, other)
      [] func = "div" -> FullFixed_div(self, other)

\* fullfixed_binop!(add), fullfixed_binop!(sub), impl Mul, impl Div
fullfixed_binop(func, self, other) ==
    CASE func = "add" -> FullInt_add(self, other)
      [] func = "sub" -> FullInt_sub(self, other)
      [] func = "mul" -> FullFixed_mul(self, other)
      [] func = "div" -> FullFixed_div(self, other)

\* the macro instantiated for all four operators: `*=` and `/=` act on the
\* wide integers and skip the scale
fullfixed_assignment_op_raw(func, self, other) ==
    CASE func = "add_assign" -> FullInt_add(self, other)
      [] func = "sub_assign" -> FullInt_sub(self, other)
      [] func = "mul_assign" -> FullInt_mul(self, other)
      [] func = "div_assign" -> FullInt_div(self, other)

\* fullfixed_assignment_op!(add_assign), (sub_assign), impl MulAssign,
\* impl DivAssign: the new value of the wide left operand
fullfixed_assignment_op(func, self, other) ==
    CASE func = "add_assign" -> FullInt_add(self, other)
      [] func = "sub_assign" -> FullInt_sub(self, other)
      [] func = "mul_assign" -> FullFixed_mul(self, other)
      [] func = "div_assign" -> FullFixed_div(self, other)

\* the macro with the operands of the wide operator exchanged
fixed_binop_exchanged(func, self, other) ==
    Bind(FullFixed_from_Fixed(self), LAMBDA ws :
    Bind(FullFixed_from_Fixed(other), LAMBDA wo :
    Bind(fullfixed_binop(func, wo, ws), LAMBDA w :
    Fixed_from_FullFixed(w))))

\* fixed_binop!: Fixed::from(FullFixed::func(FullFixed::from(self),
\*                                          FullFixed::from(other)))
fixed_binop(func, self, other) ==
    Bind(FullFixed_from_Fixed(self), LAMBDA ws :
    Bind(FullFixed_from_Fixed(other), LAMBDA wo :
    Bind(fullfixed_binop(func, ws, wo), LAMBDA w :
    Fixed_from_FullFixed(w))))

\* fixed_assignment_op!: the value stored back into *self
fixed_assignment_op(func, self, other) ==
    Bind(FullFixed_from_Fixed(self), LAMBDA wl :
    Bind(FullFixed_from_Fixed(other), LAMBDA wr :
    Bind(fullfixed_assignment_op(func, wl, wr), LAMBDA w :
    Fixed_from_FullFixed(w))))

\* impl Neg for Fixed
Fixed_neg(self) == Checked(ZNeg(self), IntBits)


\* ------------------------------------------------------------------------
\* f64: zero, or a 53-bit significand m times 2^e (the values met here are
\* far from the subnormal and the infinite ranges).  The sign of a zero is
\* not kept: no operation below tells -0.0 from 0.0.
\* ------------------------------------------------------------------------
MantissaBits == 53

F64Zero == [neg |-> FALSE, m |-> <<>>, e |-> 0]

\* the f64 nearest to (-1)^neg * M * 2^e, ties to the even significand
F64Nearest(neg, M, e) ==
    LET L == NBitLen(M)
        s == L - MantissaBits
        q == NShr(M, s)
        c == NCmp(NLowBits(M, s), NPow2(s - 1))
        up == c > 0 \/ (c = 0 /\ NIsOdd(q))
        q2 == IF up THEN NAdd(q, <<1>>) ELSE q
    IN  IF M = <<>> THEN F64Zero
        ELSE IF L <= MantissaBits
        THEN [neg |-> neg, m |-> NShl(M, MantissaBits - L),
              e |-> e - (MantissaBits - L)]
        ELSE IF NBitLen(q2) > MantissaBits
        THEN [neg |-> neg, m |-> NShr(q2, 1), e |-> e + s + 1]
        ELSE [neg |-> neg, m |-> q2, e |-> e + s]

\* `x as f64` of an integer
F64_from_int(x) == F64Nearest(x.neg, x.mag, 0)

\* f64 `*`
F64_mul(x, y) == F64Nearest(x.neg # y.neg, NMul(x.m, y.m), x.e + y.e)

\* f64 `/`, y # 0: the quotient to 57 bits and a sticky bit, then rounded
F64_div(x, y) ==
    IF x.m = <<>> THEN F64Zero
    ELSE LET dd == NDivMod(NShl(x.m, MantissaBits + 3), y.m)
             M  == NAdd(NShl(dd.q, 1), IF dd.r = <<>> THEN <<>> ELSE <<1>>)
         IN  F64Nearest(x.neg # y.neg, M, x.e - y.e - (MantissaBits + 4))

F64_neg(x) == [neg |-> ~x.neg /\ x.m # <<>>, m |-> x.m, e |-> x.e]

\* f64::round: to the nearest integer, halves away from zero
F64_round(x) ==
    IF x.e >= 0 THEN x
    ELSE LET s  == -x.e
             fr == NLowBits(x.m, s)
             ip == NShr(x.m, s)
         IN  F64Nearest(x.neg,
                        IF NBitLen(fr) = s THEN NAdd(ip, <<1>>) ELSE ip, 0)

\* `x as i64` of an f64: toward zero, saturating at the ends of the range
F64_as_Int(x) ==
    LET z == ZMake(x.neg, IF x.e >= 0 THEN NShl(x.m, x.e)
                                      ELSE NShr(x.m, -x.e))
    IN  IF ZLt(z, IntMin(IntBits)) THEN IntMin(IntBits)
        ELSE IF ZLt(IntMax(IntBits), z) THEN IntMax(IntBits)
        ELSE z

\* a conversion that casts without rounding first
Fixed_from_f64_truncating(value) ==
    Ok(F64_as_Int(F64_mul(value, F64_from_int(ZOf(FIXED_DECIMAL)))))

\* impl From<f64> for Fixed
Fixed_from_f64(value) ==
    Ok(F64_as_Int(F64_round(F64_mul(value, F64_from_int(ZOf(FIXED_DECIMAL))))))

\* a conversion of an integer that goes through f64
Fixed_from_int_via_float(value) ==
    Ok(F64_as_Int(F64_round(F64_mul(F64_from_int(value),
                                    F64_from_int(ZOf(FIXED_DECIMAL))))))

\* impl From<i64> for Fixed, impl From<i32> for Fixed
Fixed_from_int(value) ==
    Bind(FullInt_mul(value, ZOf(FIXED_DECIMAL)),
         LAMBDA p : Ok(Wrap(p, IntBits)))

\* impl From<Fixed> for Float
Float_from_Fixed(value) ==
    F64_div(F64_from_int(value), F64_from_int(ZOf(FIXED_DECIMAL)))

\* Vector::default() (and Point::origin()): the components are crate::Float,
\* an f64
ZeroVector == [x |-> F64Zero, y |-> F64Zero, z |-> F64Zero]

\* a default Rotor's fields before any is chosen
ZeroRotor ==
    [b |-> [xy |-> F64Zero, xz |-> F64Zero, yz |-> F64Zero], s |-> F64Zero]

\* Matrix::zero()
ZeroMatrix ==
    [i \in 1..4 |-> <<F64Zero, F64Zero, F64Zero, F64Zero>>]

\* no matrix chosen; overflow-checks takes the value of debug-assertions
\* where a profile does not set it
NoMatrix ==
    /\ matrix = ZeroMatrix
    /\ debug_assertions = overflow_checks

\* nothing compared and no geometry chosen
NoOthers ==
    /\ third = ZZero
    /\ epsilon = ZZero
    /\ approx = <<>>
    /\ vector = ZeroVector
    /\ rotor = ZeroRotor
    /\ NoMatrix

\* ------------------------------------------------------------------------
\* The arithmetic operators, each applied once to a pair of operands.
\* ------------------------------------------------------------------------
Spread == 1

\* Fixed::from of the literals of the tests and of the specification's
\* scenarios, as stored integers (value * FIXED_DECIMAL)
ScenarioOperands ==
    { ZOf(n) : n \in { 100000, 150000, 3000000, 33325500, -900000,
                       1000000, 30000000 } }

\* stored integers within Spread of zero and of the two ends of the i64 range
EdgeOperands ==
    UNION { { ZOf(d), ZOf(-d),
              ZSub(IntMax(IntBits), ZOf(d)),
              ZAdd(IntMin(IntBits), ZOf(d)) } : d \in 0..Spread }

Operands == ScenarioOperands \cup EdgeOperands

BinaryFuncs == {"add", "sub", "mul", "div"}

AssignFuncs == {"add_assign", "sub_assign", "mul_assign", "div_assign"}

Init ==
    /\ overflow_checks \in BOOLEAN
    /\ NoOthers
    /\ lhs \in Operands
    /\ rhs \in Operands
    /\ fval = F64Zero
    /\ ival = ZZero
    /\ op = "operands"
    /\ prev = "none"
    /\ arg1 = lhs
    /\ arg2 = rhs
    /\ out = Ok(lhs)

\* `lhs func rhs` with the operator of fixed_binop!; the operands are Copy
\* and stay as they are
BinOp(func) ==
    /\ op = "operands"
    /\ out' = fixed_binop(func, lhs, rhs)
    /\ op' = func
    /\ UNCHANGED <<others, overflow_checks, lhs, rhs, fval, ival, prev, arg1, arg2>>

\* `lhs func= rhs` with the operator of fixed_assignment_op!: *self is
\* assigned last, so a panic leaves it as it was
AssignOp(func) ==
    /\ op = "operands"
    /\ LET r == fixed_assignment_op(func, lhs, rhs)
       IN  /\ out' = r
           /\ lhs' = IF r.ok THEN r.v ELSE lhs
    /\ op' = func
    /\ UNCHANGED <<others, overflow_checks, rhs, fval, ival, prev, arg1, arg2>>

\* `-lhs`
NegOp ==
    /\ op = "operands"
    /\ out' = Fixed_neg(lhs)
    /\ op' = "neg"
    /\ UNCHANGED <<others, overflow_checks, lhs, rhs, fval, ival, prev, arg1, arg2>>

Next ==
    \/ \E func \in BinaryFuncs : BinOp(func)
    \/ \E func \in AssignFuncs : AssignOp(func)
    \/ NegOp

Spec == Init /\ [][Next]_vars

\* ------------------------------------------------------------------------
\* The conversions: a float or an integer into a Fixed, and a Fixed back
\* into a float.
\* ------------------------------------------------------------------------
ConvSpread == 3

\* the decimal literal num / den as the compiler reads it: the f64 nearest
\* to the quotient
FloatLiteral(num, den) == F64_div(F64_from_int(ZOf(num)), F64_from_int(ZOf(den)))

\* the literals of the tests and of the specification's scenarios, and
\* literals next to a rounding boundary of the fifth decimal
Literals ==
    { <<1321139, 10000>>, <<333255, 1000>>, <<-9, 1>>, <<14, 1>>, <<16, 1>>,
      <<3, 2>>, <<30, 1>>, <<45, 1>>, <<999995, 1000000>>, <<5, 1000000>>,
      <<1000005, 1000000>>, <<285, 1000>>, <<1005, 1000>>, <<35, 1000000>> }

\* k / 64 scales to k * 1562.5: a tie for every odd k
FloatInputs ==
    { FloatLiteral(p[1], p[2]) : p \in Literals }
        \cup { FloatLiteral(-p[1], p[2]) : p \in Literals }
        \cup { FloatLiteral(k, 64) : k \in (-ConvSpread)..ConvSpread }
        \cup { F64_from_int(ZPow2(46)), F64_neg(F64_from_int(ZPow2(46))) }

\* the integer with the decimal digits hi, then eight digits mid, then lo
Dec3(hi, mid, lo) ==
    ZAdd(ZMul(ZAdd(ZMul(ZOf(hi), ZOf(10000)), ZOf(mid)), ZOf(10000)), ZOf(lo))

\* integers within ConvSpread of zero, the two integers either side of
\* 2^53 / FIXED_DECIMAL, and integers near the end of the range
\* (i64::MAX / FIXED_DECIMAL is 92233720368547)
BigInts ==
    { Dec3(900, 7199, 2547), Dec3(900, 7199, 2548),
      Dec3(165925, 5417, 7596), Dec3(486500, 9565, 1897),
      Dec3(922337, 2036, 8547), Dec3(461168, 6018, 4273) }

\* i64 values whose product with FIXED_DECIMAL is outside the i64 range
WideInts ==
    { Dec3(922337, 2036, 8548), Dec3(1844674, 4073, 7096), IntMax(IntBits) }

IntInputs ==
    { ZOf(n) : n \in (-ConvSpread)..ConvSpread }
        \cup BigInts \cup { ZNeg(n) : n \in BigInts }
        \cup WideInts \cup { ZNeg(n) : n \in WideInts }

InitConv ==
    /\ overflow_checks \in BOOLEAN
    /\ NoOthers
    /\ \/ fval \in FloatInputs /\ ival = ZZero /\ op = "float"
       \/ fval = F64Zero /\ ival \in IntInputs /\ op = "integer"
    /\ lhs = ZZero
    /\ rhs = ZZero
    /\ prev = "none"
    /\ arg1 = ZZero
    /\ arg2 = ZZero
    /\ out = Ok(ZZero)

\* `lhs = Fixed::from(fval)`
FromFloat ==
    /\ op = "float"
    /\ LET r == Fixed_from_f64(fval)
       IN  /\ out' = r
           /\ lhs' = IF r.ok THEN r.v ELSE lhs
    /\ op' = "from_f64"
    /\ UNCHANGED <<others, overflow_checks, rhs, fval, ival, prev, arg1, arg2>>

\* `lhs = Fixed::from(ival)`
FromInt ==
    /\ op = "integer"
    /\ LET r == Fixed_from_int(ival)
       IN  /\ out' = r
           /\ lhs' = IF r.ok THEN r.v ELSE lhs
    /\ op' = "from_int"
    /\ UNCHANGED <<others, overflow_checks, rhs, fval, ival, prev, arg1, arg2>>

\* `fval = Float::from(lhs)` of the Fixed just made; arg1 keeps the float
\* and arg2 the integer it was made from
ToFloat ==
    /\ op \in {"from_f64", "from_int"}
    /\ out.ok
    /\ fval' = Float_from_Fixed(lhs)
    /\ op' = IF op = "from_int" THEN "int_to_float" ELSE "float_to_float"
    /\ UNCHANGED <<others, overflow_checks, lhs, rhs, ival, prev, arg1, arg2, out>>

NextConv == FromFloat \/ FromInt \/ ToFloat

SpecConv == InitConv /\ [][NextConv]_vars

\* ------------------------------------------------------------------------
\* Two operators in a row: `(lhs f rhs) g rhs`.
\* ------------------------------------------------------------------------
\* positive stored integers: a few units in the last place, the scenario
\* values, and the largest Fixed
ChainOperands ==
    { ZOf(d) : d \in 1..(Spread + 2) }
        \cup { ZOf(n) : n \in { 100000, 1000000, 3000000, 33325500 } }
        \cup { IntMax(IntBits) }

InitChain ==
    /\ overflow_checks \in BOOLEAN
    /\ NoOthers
    /\ lhs \in ChainOperands
    /\ rhs \in ChainOperands
    /\ fval = F64Zero
    /\ ival = ZZero
    /\ op = "operands"
    /\ prev = "none"
    /\ arg1 = lhs
    /\ arg2 = rhs
    /\ out = Ok(lhs)

\* `lhs = lhs f rhs; lhs func rhs`: the second operator applied to the result
\* of the first and the same right operand
ThenOp(func) ==
    /\ prev = "none"
    /\ op \in BinaryFuncs
    /\ out.ok
    /\ lhs' = out.v
    /\ out' = fixed_binop(func, out.v, rhs)
    /\ prev' = op
    /\ op' = func
    /\ UNCHANGED <<others, overflow_checks, rhs, fval, ival, arg1, arg2>>

NextChain ==
    \/ \E func \in BinaryFuncs : BinOp(func)
    \/ \E func \in BinaryFuncs : ThenOp(func)

SpecChain == InitChain /\ [][NextChain]_vars

\* ------------------------------------------------------------------------
\* The methods of Fixed on one value: neg, abs, signum, powi, sqrt.
\* ------------------------------------------------------------------------
\* Fixed::abs: i64::abs negates a negative value under the build's overflow
\* checks
Fixed_abs(self) ==
    IF self.neg THEN Checked(ZNeg(self), IntBits) ELSE Ok(self)

\* a signum that returns a bare sign flag
Fixed_signum_flag(self) ==
    IF ~self.neg THEN Ok(ZOf(1)) ELSE Ok(ZOf(-1))

\* Fixed::signum
Fixed_signum(self) ==
    IF ~self.neg THEN Ok(Wrap(ZOf(FIXED_DECIMAL), IntBits))
    ELSE Ok(Wrap(ZNeg(ZOf(FIXED_DECIMAL)), IntBits))

\* i32::unsigned_abs
unsigned_abs(exp) == IF exp < 0 THEN -exp ELSE exp

\* Int::pow: the product of exp copies of base, every multiplication under
\* the build's overflow checks
RECURSIVE Int_pow(_, _)
Int_pow(base, exp) ==
    IF exp = 0 THEN Ok(ZOf(1))
    ELSE Bind(Int_pow(base, exp - 1),
              LAMBDA acc : Checked(ZMul(acc, base), IntBits))

\* Fixed::powi
Fixed_powi(self, exp) == Int_pow(self, unsigned_abs(exp))

\* the integer square root by Newton's iteration from above
RECURSIVE NSqrtFrom(_, _)
NSqrtFrom(n, x) ==
    LET y == NShr(NAdd(x, NDivMod(n, x).q), 1)
    IN  IF NCmp(y, x) >= 0 THEN x ELSE NSqrtFrom(n, y)

NSqrt(n) ==
    IF n = <<>> THEN <<>> ELSE NSqrtFrom(n, NPow2((NBitLen(n) + 1) \div 2))

\* f64::sqrt of x >= 0, correctly rounded: the root of the significand
\* shifted to an even exponent, a sticky bit, then rounded
F64_sqrt(x) ==
    IF x.m = <<>> THEN F64Zero
    ELSE LET k == IF (x.e - (MantissaBits + 7)) % 2 = 0
                  THEN MantissaBits + 7 ELSE MantissaBits + 8
             n == NShl(x.m, k)
             r == NSqrt(n)
             M == NAdd(NShl(r, 1), IF NMul(r, r) = n THEN <<>> ELSE <<1>>)
         IN  F64Nearest(FALSE, M, ((x.e - k) \div 2) - 1)

\* a root taken of the stored integer instead of the float it stands for
Fixed_sqrt_of_stored(self) ==
    IF self.neg THEN Ok(ZZero)
    ELSE Fixed_from_f64(F64_sqrt(F64_from_int(self)))

\* Fixed::sqrt; the root of a negative float is NaN, NaN * FIXED_DECIMAL is
\* NaN, NaN.round() is NaN and `NaN as Int` is 0
Fixed_sqrt(self) ==
    IF self.neg THEN Ok(ZZero)
    ELSE Fixed_from_f64(F64_sqrt(Float_from_Fixed(self)))

MaxExp == 2

\* the exponents of powi, an i32
Exponents == (-MaxExp)..MaxExp

\* zero and the last place, 1.0, 2.0, 4.0, 25.0 and their like, two values
\* whose root lies next to a rounding boundary, the largest square, and the
\* ends of the range
UnaryOperands ==
    { ZOf(n) : n \in { 0, 1, 100000, -100000, 200000, 400000, 2500000 } }
        \cup { Dec3(124, 6090, 353), Dec3(66, 971, 9886),
               ZMul(ZMul(Dec3(0, 960, 3838), Dec3(0, 960, 3838)),
                    ZOf(FIXED_DECIMAL)) }
        \cup UNION { { ZSub(IntMax(IntBits), ZOf(d)),
                       ZAdd(IntMin(IntBits), ZOf(d)) } : d \in 0..Spread }

InitUnary ==
    /\ overflow_checks \in BOOLEAN
    /\ NoOthers
    /\ lhs \in UnaryOperands
    /\ rhs \in UnaryOperands
    /\ fval = F64Zero
    /\ ival = ZZero
    /\ op = "operands"
    /\ prev = "none"
    /\ arg1 = lhs
    /\ arg2 = rhs
    /\ out = Ok(lhs)

\* `lhs.abs()`
AbsOp ==
    /\ op = "operands"
    /\ out' = Fixed_abs(lhs)
    /\ op' = "abs"
    /\ UNCHANGED <<others, overflow_checks, lhs, rhs, fval, ival, prev, arg1, arg2>>

\* `lhs.signum()`
SignumOp ==
    /\ op = "operands"
    /\ out' = Fixed_signum(lhs)
    /\ op' = "signum"
    /\ UNCHANGED <<others, overflow_checks, lhs, rhs, fval, ival, prev, arg1, arg2>>

\* `lhs.powi(exp)`; ival keeps the exponent
PowiOp(exp) ==
    /\ op = "operands"
    /\ out' = Fixed_powi(lhs, exp)
    /\ ival' = ZOf(exp)
    /\ op' = "powi"
    /\ UNCHANGED <<others, overflow_checks, lhs, rhs, fval, prev, arg1, arg2>>

\* `lhs.sqrt()`
SqrtOp ==
    /\ op = "operands"
    /\ out' = Fixed_sqrt(lhs)
    /\ op' = "sqrt"
    /\ UNCHANGED <<others, overflow_checks, lhs, rhs, fval, ival, prev, arg1, arg2>>

NextUnary ==
    \/ NegOp
    \/ AbsOp
    \/ SignumOp
    \/ \E exp \in Exponents : PowiOp(exp)
    \/ SqrtOp

SpecUnary == InitUnary /\ [][NextUnary]_vars

\* ------------------------------------------------------------------------
\* approximately: a, b and c compared pairwise at one tolerance.
\* ------------------------------------------------------------------------
\* a bool returned, or a panic in place of one
OkB(b) == [ok |-> TRUE, v |-> b, err |-> "none"]

PanicB(why) == [ok |-> FALSE, v |-> FALSE, err |-> why]

\* i64::abs, under the build's overflow checks
Int_abs(x) == IF x.neg THEN Checked(ZNeg(x), IntBits) ELSE Ok(x)

\* the comparison turned round
Fixed_approximately_inverted(self, other, eps) ==
    LET d == Checked(ZSub(self, other), IntBits)
        m == IF d.ok THEN Int_abs(d.v) ELSE d
    IN  IF m.ok THEN OkB(ZLe(eps, m.v)) ELSE PanicB(m.err)

\* impl Approximately<F> for Fixed; eps is `e`, the stored integer of
\* Fixed::from(epsilon); the difference and its absolute value are i64
\* operations
Fixed_approximately(self, other, eps) ==
    LET d == Checked(ZSub(self, other), IntBits)
        m == IF d.ok THEN Int_abs(d.v) ELSE d
    IN  IF m.ok THEN OkB(ZLe(m.v, eps)) ELSE PanicB(m.err)

\* stored integers a few units apart, 1.0 and its neighbours, and the ends
\* of the range
ApproxOperands ==
    { ZOf(n) : n \in { -1, 0, 1, 2, 100000, 100001 } }
        \cup { IntMax(IntBits), IntMin(IntBits) }

\* tolerances: none, one unit, Float::EPSILON (3 / FIXED_DECIMAL), negative
Epsilons == { ZOf(n) : n \in { -1, 0, 1, 3 } }

InitApprox ==
    /\ overflow_checks \in BOOLEAN
    /\ lhs \in ApproxOperands
    /\ rhs \in ApproxOperands
    /\ third \in ApproxOperands
    /\ epsilon \in Epsilons
    /\ approx = <<>>
    /\ vector = ZeroVector
    /\ rotor = ZeroRotor
    /\ NoMatrix
    /\ fval = F64Zero
    /\ ival = ZZero
    /\ op = "operands"
    /\ prev = "none"
    /\ arg1 = lhs
    /\ arg2 = rhs
    /\ out = Ok(lhs)

\* the calls in the order made: a with b, b with a, b with c, a with c
ApproxCalls == << <<"a", "b">>, <<"b", "a">>, <<"b", "c">>, <<"a", "c">> >>

\* the Fixed a call names
Named(name) ==
    CASE name = "a" -> lhs
      [] name = "b" -> rhs
      [] name = "c" -> third

\* the next `x.approximately(y, epsilon)`
Approximately ==
    /\ Len(approx) < Len(ApproxCalls)
    /\ LET call == ApproxCalls[Len(approx) + 1]
       IN  approx' = Append(approx,
               Fixed_approximately(Named(call[1]), Named(call[2]), epsilon))
    /\ op' = "approximately"
    /\ UNCHANGED <<overflow_checks, lhs, rhs, third, epsilon, vector, rotor,
                   matrix, debug_assertions, fval, ival, prev, arg1, arg2,
                   out>>

NextApprox == Approximately

SpecApprox == InitApprox /\ [][NextApprox]_vars

\* ------------------------------------------------------------------------
\* Vector, Rotor and Matrix; crate::Float is f64 (Point::new takes f64).
\* ------------------------------------------------------------------------
\* x and y as integers over the smaller of their exponents
F64Pair(x, y) ==
    LET e == IF x.m = <<>> THEN y.e
             ELSE IF y.m = <<>> THEN x.e
             ELSE IF x.e < y.e THEN x.e ELSE y.e
    IN  [e |-> e,
         x |-> IF x.m = <<>> THEN ZZero ELSE ZMake(x.neg, NShl(x.m, x.e - e)),
         y |-> IF y.m = <<>> THEN ZZero ELSE ZMake(y.neg, NShl(y.m, y.e - e))]

\* the one element of a singleton
Only(S) == CHOOSE s \in S : TRUE

\* f64 `+`: the exact sum, rounded
F64_add(x, y) ==
    LET p == F64Pair(x, y)
        t == ZAdd(p.x, p.y)
    IN  F64Nearest(t.neg, t.mag, p.e)

\* f64 `-`
F64_sub(x, y) == F64_add(x, F64_neg(y))

\* f64 `<`
F64_lt(x, y) == LET p == F64Pair(x, y) IN ZLt(p.x, p.y)

\* f64::abs
F64_abs(x) == [neg |-> FALSE, m |-> x.m, e |-> x.e]

\* Float::ZERO, Float::zero()
ZER == F64Zero

\* Float::ONE, Float::one()
ONE == F64_from_int(ZOf(1))

Vector_new(x, y, z) == [x |-> x, y |-> y, z |-> z]

X_AXIS == Vector_new(ONE, ZER, ZER)

Y_AXIS == Vector_new(ZER, ONE, ZER)

Z_AXIS == Vector_new(ZER, ZER, ONE)

\* Vector::dot
Vector_dot(self, other) ==
    F64_add(F64_add(F64_mul(self.x, other.x), F64_mul(self.y, other.y)),
            F64_mul(self.z, other.z))

\* Vector::cross
Vector_cross(self, other) ==
    Vector_new(F64_sub(F64_mul(self.y, other.z), F64_mul(self.z, other.y)),
               F64_sub(F64_mul(self.z, other.x), F64_mul(self.x, other.z)),
               F64_sub(F64_mul(self.x, other.y), F64_mul(self.y, other.x)))

\* Vector::length_sq
Vector_length_sq(self) ==
    F64_add(F64_add(F64_mul(self.x, self.x), F64_mul(self.y, self.y)),
            F64_mul(self.z, self.z))

\* Vector::orthogonal: the cross product with the axis of the strictly
\* smallest component, the z axis when neither x nor y is
Vector_orthogonal(self) ==
    LET x == F64_abs(self.x)
        y == F64_abs(self.y)
        z == F64_abs(self.z)
        axis == IF F64_lt(x, y) /\ F64_lt(x, z) THEN X_AXIS
                ELSE IF F64_lt(y, x) /\ F64_lt(y, z) THEN Y_AXIS
                ELSE Z_AXIS
    IN  Vector_cross(self, axis)

\* Rotor::new
Rotor_new(xy, xz, yz, s) == [b |-> [xy |-> xy, xz |-> xz, yz |-> yz], s |-> s]

\* acc + p, or acc - p
F64_signed_add(acc, sign, p) ==
    F64_add(acc, IF sign = "-" THEN F64_neg(p) ELSE p)

\* a sum of signed products of f64 values, evaluated from the left as the
\* expressions of the source are: terms[i] is <<sign, a, b>> and the first
\* n of them are summed
RECURSIVE F64_products(_, _)
F64_products(terms, n) ==
    IF n = 1 THEN F64_mul(terms[1][2], terms[1][3])
    ELSE F64_signed_add(F64_products(terms, n - 1), terms[n][1],
                        F64_mul(terms[n][2], terms[n][3]))

\* floating::rotate_vector, the terms of q.x, q.y, q.z and t
rotate_vector_q(s, b, v) ==
    << << <<"+", s, v.x>>, <<"+", v.y, b.xy>>, <<"+", v.z, b.xz>> >>,
       << <<"+", s, v.y>>, <<"-", v.x, b.xy>>, <<"+", v.z, b.yz>> >>,
       << <<"+", s, v.z>>, <<"-", v.x, b.xz>>, <<"-", v.y, b.yz>> >>,
       << <<"+", v.x, b.yz>>, <<"-", v.y, b.xz>>, <<"+", v.z, b.xy>> >> >>

\* floating::rotate_vector, the terms of vector.x, vector.y and vector.z
rotate_vector_out(s, b, q, t) ==
    << << <<"+", s, q.x>>, <<"+", q.y, b.xy>>, <<"+", q.z, b.xz>>,
          <<"+", t, b.yz>> >>,
       << <<"+", s, q.y>>, <<"-", q.x, b.xy>>, <<"-", t, b.xz>>,
          <<"+", q.z, b.yz>> >>,
       << <<"+", s, q.z>>, <<"+", t, b.xy>>, <<"-", q.x, b.xz>>,
          <<"-", q.y, b.yz>> >> >>

\* floating::rotate_vector, the vector it leaves in *vector
rotate_vector(r, v) ==
    Only({ Vector_new(w[1], w[2], w[3]) :
           w \in { [i \in 1..3 |->
                      F64_products(rotate_vector_out(r.s, r.b,
                                       Vector_new(qt[1], qt[2], qt[3]),
                                       qt[4])[i], 4)] :
                   qt \in { [i \in 1..4 |->
                       F64_products(rotate_vector_q(r.s, r.b, v)[i], 3)] } } })

\* Vector::rotated_by
Vector_rotated_by(self, rotation) == rotate_vector(rotation, self)

\* Matrix::from_orientation: the rows of `elements`
Matrix_from_orientation(orientation) ==
    Only({ << <<a[1].x, a[1].y, a[1].z, ZER>>,
              <<a[2].x, a[2].y, a[2].z, ZER>>,
              <<a[3].x, a[3].y, a[3].z, ZER>>,
              <<ZER, ZER, ZER, ONE>> >> :
           a \in { [i \in 1..3 |->
                      Vector_rotated_by(<<X_AXIS, Y_AXIS, Z_AXIS>>[i],
                                        orientation)] } })

\* Matrix::from_translation_and_orientation: matrix[3][0..=3] assigned over
\* the matrix of the orientation
Matrix_from_translation_and_orientation(translation, orientation) ==
    [Matrix_from_orientation(orientation) EXCEPT
         ![4] = <<translation.x, translation.y, translation.z, ZER>>]

\* components: 0, 1, -1, 2 and 0.5
Components ==
    { F64_from_int(ZOf(n)) : n \in { 0, 1, -1, 2 } } \cup { FloatLiteral(1, 2) }

Vectors == { Vector_new(x, y, z) : x \in Components, y \in Components,
                                   z \in Components }

\* Rotor::identity(), half a turn in the xy plane, a quarter turn in it
\* (to five decimals), and a third of a turn about the diagonal
Rotors ==
    { Rotor_new(ZER, ZER, ZER, ONE),
      Rotor_new(ONE, ZER, ZER, ZER),
      Rotor_new(FloatLiteral(70711, 100000), ZER, ZER,
                FloatLiteral(70711, 100000)),
      Rotor_new(FloatLiteral(1, 2), FloatLiteral(1, 2), FloatLiteral(1, 2),
                FloatLiteral(1, 2)) }

InitGeometry ==
    /\ overflow_checks \in BOOLEAN
    /\ vector \in Vectors
    /\ rotor \in Rotors
    /\ NoMatrix
    /\ third = ZZero
    /\ epsilon = ZZero
    /\ approx = <<>>
    /\ lhs = ZZero
    /\ rhs = ZZero
    /\ fval = F64Zero
    /\ ival = ZZero
    /\ op = "operands"
    /\ prev = "none"
    /\ arg1 = ZZero
    /\ arg2 = ZZero
    /\ out = Ok(ZZero)

\* `vector.orthogonal()`
Orthogonal ==
    /\ op = "operands"
    /\ out' = Ok(Vector_orthogonal(vector))
    /\ op' = "orthogonal"
    /\ UNCHANGED <<others, overflow_checks, lhs, rhs, fval, ival, prev, arg1, arg2>>

\* `Matrix::from_orientation(rotor)`
FromOrientation ==
    /\ op = "operands"
    /\ out' = Ok(Matrix_from_orientation(rotor))
    /\ op' = "from_orientation"
    /\ UNCHANGED <<others, overflow_checks, lhs, rhs, fval, ival, prev, arg1, arg2>>

\* `Matrix::from_translation_and_orientation(vector, rotor)`, the Point of
\* the translation having the components of `vector`
FromTranslationAndOrientation ==
    /\ op = "operands"
    /\ out' = Ok(Matrix_from_translation_and_orientation(vector, rotor))
    /\ op' = "from_translation_and_orientation"
    /\ UNCHANGED <<others, overflow_checks, lhs, rhs, fval, ival, prev, arg1, arg2>>

NextGeometry ==
    \/ Orthogonal
    \/ FromOrientation
    \/ FromTranslationAndOrientation

SpecGeometry == InitGeometry /\ [][NextGeometry]_vars

\* ------------------------------------------------------------------------
\* Matrix::transpose and Matrix::transposed.
\* ------------------------------------------------------------------------
\* `let (a, b) = elements.split_at_mut(mid)` and then
\* `std::mem::swap(&mut a[ar][ac], &mut b[br][bc])`: b[br] is row mid + br
\* of the matrix; rows and columns of the source count from 0, the rows of
\* the tuples here from 1
split_swap(elements, mid, ar, ac, br, bc) ==
    [elements EXCEPT ![ar + 1][ac + 1] = elements[mid + br + 1][bc + 1],
                     ![mid + br + 1][bc + 1] = elements[ar + 1][ac + 1]]

\* a transposition without its last block
Matrix_transpose_two_blocks(self) ==
    LET s1 == split_swap(self, 1, 0, 1, 0, 0)
        s2 == split_swap(s1, 1, 0, 2, 1, 0)
        s3 == split_swap(s2, 1, 0, 3, 2, 0)
        s4 == split_swap(s3, 2, 1, 2, 0, 1)
    IN  split_swap(s4, 2, 1, 3, 1, 1)

\* Matrix::transpose: the elements it leaves in *self
Matrix_transpose(self) ==
    LET s1 == split_swap(self, 1, 0, 1, 0, 0)
        s2 == split_swap(s1, 1, 0, 2, 1, 0)
        s3 == split_swap(s2, 1, 0, 3, 2, 0)
        s4 == split_swap(s3, 2, 1, 2, 0, 1)
        s5 == split_swap(s4, 2, 1, 3, 1, 1)
    IN  split_swap(s5, 3, 2, 3, 0, 2)

\* Matrix::transposed: a clone, transposed
Matrix_transposed(self) == Matrix_transpose(self)

\* the matrix whose element [i][j] is a * i + b * j + c
MatrixOf(a, b, c) ==
    [i \in 1..4 |-> [j \in 1..4 |->
        F64_from_int(ZOf(a * (i - 1) + b * (j - 1) + c))]]

\* the matrix of the example of Matrix::transpose
UpperMatrix ==
    LET f(n) == F64_from_int(ZOf(n))
    IN  << <<f(0), f(1), f(2), f(3)>>,
           <<f(0), f(0), f(4), f(5)>>,
           <<f(0), f(0), f(0), f(6)>>,
           <<f(0), f(0), f(0), f(0)>> >>

\* matrices of sixteen different elements, of repeated ones, symmetric ones
Matrices ==
    { MatrixOf(a, b, c) : a \in {0, 1, 4}, b \in {0, 1, 2}, c \in {-1, 0} }
        \cup { UpperMatrix, ZeroMatrix }

InitMatrix ==
    /\ overflow_checks \in BOOLEAN
    /\ debug_assertions = overflow_checks
    /\ matrix \in Matrices
    /\ third = ZZero
    /\ epsilon = ZZero
    /\ approx = <<>>
    /\ vector = ZeroVector
    /\ rotor = ZeroRotor
    /\ lhs = ZZero
    /\ rhs = ZZero
    /\ fval = F64Zero
    /\ ival = ZZero
    /\ op = "operands"
    /\ prev = "none"
    /\ arg1 = matrix
    /\ arg2 = matrix
    /\ out = Ok(matrix)

\* `matrix.transpose()`: arg1 is the matrix before the call, arg2 the one
\* before the call preceding it
Transpose ==
    /\ matrix' = Matrix_transpose(matrix)
    /\ arg1' = matrix
    /\ arg2' = arg1
    /\ prev' = op
    /\ op' = "transpose"
    /\ UNCHANGED <<overflow_checks, debug_assertions, third, epsilon, approx,
                   vector, rotor, lhs, rhs, fval, ival, out>>

\* `matrix.transposed()`
Transposed ==
    /\ out' = Ok(Matrix_transposed(matrix))
    /\ arg1' = matrix
    /\ arg2' = arg1
    /\ prev' = op
    /\ op' = "transposed"
    /\ UNCHANGED <<overflow_checks, debug_assertions, third, epsilon, approx,
                   vector, rotor, lhs, rhs, fval, ival, matrix>>

NextMatrix ==
    \/ Transpose
    \/ Transposed

SpecMatrix == InitMatrix /\ [][NextMatrix]_vars

\* ------------------------------------------------------------------------
\* Percent: a wrapped f64, constructed by Percent::new and
\* Percent::from_ratio.  The floats here are finite; the one infinity the
\* constructors can produce is kept apart from them.
\* ------------------------------------------------------------------------
\* x / 0.0 for x # 0: the infinity of the sign of x
F64_infinity(neg) == [neg |-> neg, inf |-> TRUE]

F64_is_finite(x) == "m" \in DOMAIN x

\* assert!(cond), and debug_assert!(cond) where it is compiled in
require(cond, value) == IF cond THEN Ok(value) ELSE Panic("assertion")

\* Percent::new
Percent_new(value) ==
    require(F64_lt(ZER, value) /\ F64_lt(value, ONE), value)

\* Percent::from_ratio: debug_assert!(num >= 0.0 && den > 0.0), then
\* assert!(num < den), then num / den
Percent_from_ratio(num, den) ==
    IF debug_assertions /\ ~(~F64_lt(num, ZER) /\ F64_lt(ZER, den))
    THEN Panic("assertion")
    ELSE require(F64_lt(num, den),
                 IF den.m = <<>> THEN F64_infinity(num.neg)
                 ELSE F64_div(num, den))

\* quarters from -2 to 2, and +-3
PercentInputs ==
    { FloatLiteral(k, 4) : k \in -8..8 } \cup { FloatLiteral(k, 1) : k \in {-3, 3} }

InitPercent ==
    /\ debug_assertions \in BOOLEAN
    /\ overflow_checks = debug_assertions
    /\ matrix = ZeroMatrix
    /\ third = ZZero
    /\ epsilon = ZZero
    /\ approx = <<>>
    /\ vector = ZeroVector
    /\ rotor = ZeroRotor
    /\ lhs = ZZero
    /\ rhs = ZZero
    /\ fval = F64Zero
    /\ ival = ZZero
    /\ op = "operands"
    /\ prev = "none"
    /\ arg1 = F64Zero
    /\ arg2 = F64Zero
    /\ out = Ok(F64Zero)

\* `Percent::new(value)`
PercentNew(value) ==
    /\ op = "operands"
    /\ arg1' = value
    /\ out' = Percent_new(value)
    /\ op' = "new"
    /\ UNCHANGED <<others, overflow_checks, lhs, rhs, fval, ival, prev, arg2>>

\* `Percent::from_ratio(num, den)`
PercentFromRatio(num, den) ==
    /\ op = "operands"
    /\ arg1' = num
    /\ arg2' = den
    /\ out' = Percent_from_ratio(num, den)
    /\ op' = "from_ratio"
    /\ UNCHANGED <<others, overflow_checks, lhs, rhs, fval, ival, prev>>

NextPercent ==
    \/ \E value \in PercentInputs : PercentNew(value)
    \/ \E num \in PercentInputs : \E den \in PercentInputs :
           PercentFromRatio(num, den)

SpecPercent == InitPercent /\ [][NextPercent]_vars

\* ------------------------------------------------------------------------
\* Widening a Fixed into a FullFixed and narrowing a FullFixed into a Fixed.
\* ------------------------------------------------------------------------
WideSpread == 9

\* the wide integers within WideSpread of the widened `self`, and the two
\* ends of the i128 range
WideInputs(self) ==
    { ZAdd(ZMul(self, ZOf(FULL_FIXED_PRECISION_MULTIPLIER)), ZOf(d)) :
          d \in (-WideSpread)..WideSpread }
        \cup { IntMax(FullIntBits), IntMin(FullIntBits) }

InitWide ==
    /\ overflow_checks \in BOOLEAN
    /\ NoOthers
    /\ lhs \in Operands
    /\ rhs = ZZero
    /\ fval = F64Zero
    /\ ival = ZZero
    /\ op = "operands"
    /\ prev = "none"
    /\ arg1 = lhs
    /\ arg2 = ZZero
    /\ out = Ok(lhs)

\* `FullFixed::from(lhs)`
Widen ==
    /\ op = "operands"
    /\ out' = FullFixed_from_Fixed(lhs)
    /\ op' = "widen"
    /\ UNCHANGED <<others, overflow_checks, lhs, rhs, fval, ival, prev, arg1, arg2>>

\* `Fixed::from(FullFixed(value))`
Narrow(value) ==
    /\ op = "operands"
    /\ arg1' = value
    /\ out' = Fixed_from_FullFixed(value)
    /\ op' = "narrow"
    /\ UNCHANGED <<others, overflow_checks, lhs, rhs, fval, ival, prev, arg2>>

\* `Fixed::from(FullFixed::from(lhs))`
WidenThenNarrow ==
    /\ op = "operands"
    /\ out' = Bind(FullFixed_from_Fixed(lhs),
                   LAMBDA w : Fixed_from_FullFixed(w))
    /\ op' = "widen_then_narrow"
    /\ UNCHANGED <<others, overflow_checks, lhs, rhs, fval, ival, prev, arg1, arg2>>

NextWide ==
    \/ Widen
    \/ \E value \in WideInputs(lhs) : Narrow(value)
    \/ WidenThenNarrow

SpecWide == InitWide /\ [][NextWide]_vars

\* ------------------------------------------------------------------------
\* Fixed::from_const, the constructor of the constants of lib.rs and
\* constant.rs (feature fixed_precision).
\* ------------------------------------------------------------------------
\* FIXED_DECIMAL as Float
FIXED_DECIMAL_as_Float == F64_from_int(ZOf(FIXED_DECIMAL))

\* const_round_to_decimal_point: x is scaled, 0.5 is added to or subtracted
\* from it, the sum is cast to i64 and divided by the scale again; `scaled`
\* and `rounded` are the values of the two lets
const_round_to_decimal_point(x) ==
    Only({ F64_div(F64_from_int(rounded), FIXED_DECIMAL_as_Float) :
           rounded \in
               { IF ~F64_lt(scaled, ZER)
                 THEN F64_as_Int(F64_add(scaled, FloatLiteral(1, 2)))
                 ELSE F64_as_Int(F64_sub(scaled, FloatLiteral(1, 2))) :
                 scaled \in { F64_mul(x, FIXED_DECIMAL_as_Float) } } })

\* Fixed::from_const: the argument of const_round_to_decimal_point is
\* value * FIXED_DECIMAL, and `rounded`, its result, is cast to Int
Fixed_from_const(value) ==
    Only({ Ok(F64_as_Int(rounded)) :
           rounded \in
               { const_round_to_decimal_point(scaled) :
                 scaled \in { F64_mul(value, FIXED_DECIMAL_as_Float) } } })

\* precise::PI, precise::E and precise::PHI: the f64 nearest to the literal
\* is the one nearest to its first sixteen digits
PI == F64_div(F64_from_int(Dec3(31415926, 5358, 9793)),
              F64_from_int(Dec3(10000000, 0, 0)))

E == F64_div(F64_from_int(Dec3(27182818, 2845, 9045)),
             F64_from_int(Dec3(10000000, 0, 0)))

PHI == F64_div(F64_from_int(Dec3(16180339, 8874, 9895)),
               F64_from_int(Dec3(10000000, 0, 0)))

\* precise::DEG2RAD
DEG2RAD == F64_div(PI, F64_from_int(ZOf(180)))

\* precise::RAD2DEG
RAD2DEG == F64_div(ONE, DEG2RAD)

\* the arguments of from_const in lib.rs (1.0, 0.0, 3.0 / FIXED_DECIMAL) and
\* in constant.rs, and the floats the run-time conversion is given
ConstInputs ==
    { ONE, ZER, F64_div(F64_from_int(ZOf(3)), FIXED_DECIMAL_as_Float),
      FloatLiteral(1, 1000000), PI, E, PHI, DEG2RAD, RAD2DEG }
        \cup FloatInputs

InitConst ==
    /\ overflow_checks \in BOOLEAN
    /\ NoOthers
    /\ fval \in ConstInputs
    /\ ival = ZZero
    /\ op = "float"
    /\ lhs = ZZero
    /\ rhs = ZZero
    /\ prev = "none"
    /\ arg1 = ZZero
    /\ arg2 = ZZero
    /\ out = Ok(ZZero)

\* `const LHS: Fixed = Fixed::from_const(fval)`
FromConst ==
    /\ op = "float"
    /\ LET r == Fixed_from_const(fval)
       IN  /\ out' = r
           /\ lhs' = IF r.ok THEN r.v ELSE lhs
    /\ op' = "from_const"
    /\ UNCHANGED <<others, overflow_checks, rhs, fval, ival, prev, arg1, arg2>>

NextConst ==
    \/ FromConst
    \/ FromFloat

SpecConst == InitConst /\ [][NextConst]_vars

\* ------------------------------------------------------------------------
\* Numeric::from_float of u8 and u32; crate::Float is f64.
\* ------------------------------------------------------------------------
\* Option: Some(x) and None
Some(x) == Ok(x)

None == [ok |-> FALSE, v |-> ZZero, err |-> "None"]

\* `x as u8`, `x as u32` of an f64: toward zero, saturating at 0 and at the
\* MAX of the type of w bits
F64_as_unsigned(x, w) ==
    LET z == ZMake(x.neg, IF x.e >= 0 THEN NShl(x.m, x.e)
                                      ELSE NShr(x.m, -x.e))
        max == ZSub(ZPow2(w), ZOf(1))
    IN  IF z.neg THEN ZZero
        ELSE IF ZLt(max, z) THEN max
        ELSE z

\* <u8 as Numeric>::from_float
u8_from_float(value) ==
    IF F64_lt(F64_from_int(ZSub(ZPow2(8), ZOf(1))), F64_abs(value))
    THEN None
    ELSE Some(F64_as_unsigned(value, 8))

\* <u32 as Numeric>::from_float: the bound is i32::MAX
u32_from_float(value) ==
    IF F64_lt(F64_from_int(IntMax(32)), F64_abs(value))
    THEN None
    ELSE Some(F64_as_unsigned(value, 32))

NumericSpread == 2

\* 0, u8::MAX, i32::MAX and u32::MAX
Anchors ==
    { ZZero, ZSub(ZPow2(8), ZOf(1)), IntMax(32), ZSub(ZPow2(32), ZOf(1)) }

\* the integers within NumericSpread of an anchor or of its negation, and
\* the floats half way between two of them
NumericInputs ==
    LET ints == UNION { { ZAdd(a, ZOf(d)), ZNeg(ZAdd(a, ZOf(d))) } :
                        a \in Anchors,
                        d \in (-NumericSpread)..NumericSpread }
    IN  { F64_from_int(n) : n \in ints }
            \cup { F64_div(F64_from_int(ZAdd(ZAdd(n, n), ZOf(1))),
                           F64_from_int(ZOf(2))) : n \in ints }

InitNumeric ==
    /\ overflow_checks \in BOOLEAN
    /\ NoOthers
    /\ fval \in NumericInputs
    /\ ival = ZZero
    /\ op = "float"
    /\ lhs = ZZero
    /\ rhs = ZZero
    /\ prev = "none"
    /\ arg1 = ZZero
    /\ arg2 = ZZero
    /\ out = Ok(ZZero)

\* `u8::from_float(fval)`
U8FromFloat ==
    /\ op = "float"
    /\ out' = u8_from_float(fval)
    /\ op' = "u8"
    /\ UNCHANGED <<others, overflow_checks, lhs, rhs, fval, ival, prev, arg1, arg2>>

\* `u32::from_float(fval)`
U32FromFloat ==
    /\ op = "float"
    /\ out' = u32_from_float(fval)
    /\ op' = "u32"
    /\ UNCHANGED <<others, overflow_checks, lhs, rhs, fval, ival, prev, arg1, arg2>>

NextNumeric ==
    \/ U8FromFloat
    \/ U32FromFloat

SpecNumeric == InitNumeric /\ [][NextNumeric]_vars

\* ------------------------------------------------------------------------
\* Exact arithmetic the properties are stated in.
\* ------------------------------------------------------------------------
Int_MAX == IntMax(IntBits)

Int_MIN == IntMin(IntBits)

Scale == ZOf(FIXED_DECIMAL)

ZDivides(d, x) == NDivMod(x.mag, d.mag).r = <<>>

ZWithin(x, y, ulps) == ZLe(ZAbs(ZSub(x, y)), ulps)

\* num / den rounded to the nearest integer, halves away from zero
RoundHalfAwayQuot(num, den) ==
    LET dd == NDivMod(num.mag, den.mag)
        up == NCmp(NAdd(dd.r, dd.r), den.mag) >= 0
    IN  ZMake(num.neg # den.neg, IF up THEN NAdd(dd.q, <<1>>) ELSE dd.q)

\* num / den rounded up, for num >= 0 and den > 0
CeilQuot(num, den) ==
    LET dd == NDivMod(num.mag, den.mag)
    IN  ZMake(FALSE, IF dd.r = <<>> THEN dd.q ELSE NAdd(dd.q, <<1>>))

\* (-1)^neg * M * 2^e rounded to the nearest integer, halves away from zero
RoundHalfAwayDyadic(neg, M, e) ==
    IF e >= 0 THEN ZMake(neg, NShl(M, e))
    ELSE LET fr == NLowBits(M, -e)
             ip == NShr(M, -e)
         IN  ZMake(neg, IF NBitLen(fr) = -e THEN NAdd(ip, <<1>>) ELSE ip)

\* m1 * 2^e1 = m2 * 2^e2
DyadicEq(m1, e1, m2, e2) ==
    IF e1 >= e2 THEN NShl(m1, e1 - e2) = m2 ELSE m1 = NShl(m2, e2 - e1)

\* the result of `a func b` on the stored integers, before any width applies
ExactResult(func, a, b) ==
    CASE func \in {"add", "add_assign"} -> ZAdd(a, b)
      [] func \in {"sub", "sub_assign"} -> ZSub(a, b)
      [] func \in {"mul", "mul_assign"} -> ZQuot(ZMul(a, b), Scale)
      [] func \in {"div", "div_assign"} -> ZQuot(ZMul(a, Scale), b)

\* Fixed::from(x / y) for the floats x, y of a and b
FloatQuotient(a, b) ==
    Fixed_from_f64(F64_div(Float_from_Fixed(a), Float_from_Fixed(b))).v

\* ------------------------------------------------------------------------
\* The properties.
\* ------------------------------------------------------------------------

\* C1: a product of stored integers that is a multiple of FIXED_DECIMAL, with
\* the quotient inside the i64 range, is returned exactly by `*`: no
\* rounding drift, Fixed::from(m) * Fixed::from(n) stores m * n *
\* FIXED_DECIMAL, and Fixed::from(1) * a is a.
C1_MulExact ==
    (/\ op = "mul"
     /\ ZDivides(Scale, ZMul(arg1, arg2))
     /\ InRange(ZQuot(ZMul(arg1, arg2), Scale), IntBits))
        => out = Ok(ZQuot(ZMul(arg1, arg2), Scale))

\* 1.5 * 30.0 has been multiplied and is 45.0
C1_Witness ==
    /\ op = "mul"
    /\ arg1 = ZOf(150000)
    /\ arg2 = ZOf(3000000)
    /\ out = Ok(ZOf(4500000))

\* C2: `a / b` and `a /= b` with b.stored = 0 panic with a division by zero
\* in every build, return no Fixed, and the failed `/=` leaves a as it was.
C2_DivisionByZeroSignalled ==
    (op \in {"div", "div_assign"} /\ arg2 = ZZero)
        => (~out.ok /\ out.err = "divide_by_zero" /\ lhs = arg1)

\* the largest Fixed has been divided in place by zero
C2_Witness ==
    /\ op = "div_assign"
    /\ arg1 = Int_MAX
    /\ arg2 = ZZero
    /\ ~out.ok
    /\ lhs = Int_MAX

\* C3: multiplying the two largest Fixed values (stored i64::MAX) raises an
\* overflow and returns no Fixed.
C3_MulMaxOverflows ==
    (op = "mul" /\ arg1 = Int_MAX /\ arg2 = Int_MAX)
        => (~out.ok /\ out.err = "overflow")

\* C4: whenever the exact result of +, -, *, / or their compound forms lies
\* outside the i64 range, the operation fails with an overflow instead of
\* returning the result reduced modulo 2^64.
C4_NarrowingDetectsOverflow ==
    (/\ op \in BinaryFuncs \cup AssignFuncs
     /\ ~(op \in {"div", "div_assign"} /\ arg2 = ZZero)
     /\ ~InRange(ExactResult(op, arg1, arg2), IntBits))
        => (~out.ok /\ out.err = "overflow")

\* C5: when the sum (difference) of the stored integers fits an i64, `+`
\* (`-`) returns exactly that sum (difference).
C5_AddSubExact ==
    (op \in {"add", "sub"} /\ InRange(ExactResult(op, arg1, arg2), IntBits))
        => out = Ok(ExactResult(op, arg1, arg2))

\* 10.0 - 300.0 has been computed and is -290.0
C5_Witness ==
    /\ op = "sub"
    /\ arg1 = ZOf(1000000)
    /\ arg2 = ZOf(30000000)
    /\ out = Ok(ZOf(-29000000))

\* C6: a + Fixed::from(0) is a; and for a other than the most negative
\* Fixed, a + (-a) is Fixed::from(0), b being what `-a` returns.
C6_AdditiveIdentityInverse ==
    /\ (op = "add" /\ arg2 = Fixed_from_int(ZZero).v) => out = Ok(arg1)
    /\ (op = "add" /\ arg1 # Int_MIN /\ Fixed_neg(arg1) = Ok(arg2))
           => out = Fixed_from_int(ZZero)

\* the largest Fixed has been added to its negation
C6_Witness ==
    /\ op = "add"
    /\ arg1 = Int_MAX
    /\ Fixed_neg(arg1) = Ok(arg2)
    /\ out = Ok(ZZero)

\* C7 as stated: for b # 0 and an in-range quotient, `a / b` stores a.stored
\* * FIXED_DECIMAL / b.stored truncated toward zero, and that is within one
\* unit in the last place of Fixed::from(x / y) for the floats x, y of a, b.
C7_DivisionNearFloatQuotient ==
    (/\ op = "div"
     /\ arg2 # ZZero
     /\ InRange(ExactResult("div", arg1, arg2), IntBits))
        => /\ out = Ok(ExactResult("div", arg1, arg2))
           /\ ZWithin(out.v, FloatQuotient(arg1, arg2), ZOf(1))

\* C7 as amended: the quotient is the exact one truncated toward zero, within
\* one unit of the exact quotient rounded to nearest; Fixed::from(x / y) is
\* within one unit of it while the quotient's magnitude stays below 2^48.
C7_DivisionTruncates ==
    (/\ op = "div"
     /\ arg2 # ZZero
     /\ InRange(ExactResult("div", arg1, arg2), IntBits))
        => /\ out = Ok(ExactResult("div", arg1, arg2))
           /\ ZWithin(out.v, RoundHalfAwayQuot(ZMul(arg1, Scale), arg2), ZOf(1))
           /\ ZLt(ZAbs(out.v), ZPow2(48))
                  => ZWithin(out.v, FloatQuotient(arg1, arg2), ZOf(1))

\* 333.255 / -9.0 has been computed: -37.02833, the same as the float path
C7_Witness ==
    /\ op = "div"
    /\ arg1 = ZOf(33325500)
    /\ arg2 = ZOf(-900000)
    /\ out = Ok(ZOf(-3702833))
    /\ FloatQuotient(arg1, arg2) = ZOf(-3702833)

\* C8 as stated: for a, b > 0, (a / b) * b is within one unit in the last
\* place of a.
C8_DivMulWithinOneUlp ==
    (/\ prev = "div" /\ op = "mul"
     /\ ZLt(ZZero, arg1) /\ ZLt(ZZero, arg2)
     /\ out.ok)
        => ZWithin(out.v, arg1, ZOf(1))

\* C8 as amended: for a, b > 0 with a / b in range, (a / b) * b succeeds,
\* never exceeds a, and falls short of a by at most b.stored / FIXED_DECIMAL
\* rounded up, in units of the last place - one unit when b <= 1.0.
C8_DivMulShortfall ==
    (/\ prev = "div" /\ op = "mul"
     /\ ZLt(ZZero, arg1) /\ ZLt(ZZero, arg2)
     /\ InRange(ExactResult("div", arg1, arg2), IntBits))
        => /\ out.ok
           /\ ZLe(out.v, arg1)
           /\ ZLe(ZSub(arg1, out.v), CeilQuot(arg2, Scale))

\* 1.0 / 30.0 * 30.0 has been computed and is 0.9999
C8_Witness ==
    /\ prev = "div" /\ op = "mul"
    /\ arg1 = ZOf(100000)
    /\ arg2 = ZOf(3000000)
    /\ out = Ok(ZOf(99990))

\* C9 as stated: Fixed::from(x) stores the exact real x * FIXED_DECIMAL
\* rounded to nearest, halves away from zero, for every x whose scaled value
\* is in range; and Fixed::from(-x) is -Fixed::from(x).
C9_FromFloatRoundsExactProduct ==
    LET exact == RoundHalfAwayDyadic(fval.neg,
                     NMul(fval.m, NOfInt(FIXED_DECIMAL)), fval.e)
    IN  (op = "from_f64" /\ InRange(exact, IntBits))
            => /\ out = Ok(exact)
               /\ Fixed_from_f64(F64_neg(fval)) = Ok(ZNeg(out.v))

\* C9 as amended: Fixed::from(x) stores the f64 product x * FIXED_DECIMAL
\* (itself rounded to the nearest f64) rounded to the nearest integer, halves
\* away from zero; that is the exact real product rounded likewise whenever
\* the product is exactly an f64; and Fixed::from(-x) is -Fixed::from(x).
C9_FromFloatRounds ==
    LET M     == NMul(fval.m, NOfInt(FIXED_DECIMAL))
        exact == RoundHalfAwayDyadic(fval.neg, M, fval.e)
        fl    == F64_mul(fval, F64_from_int(Scale))
    IN  (op = "from_f64" /\ InRange(exact, IntBits))
            => /\ out = Ok(RoundHalfAwayDyadic(fl.neg, fl.m, fl.e))
               /\ DyadicEq(fl.m, fl.e, M, fval.e) => out = Ok(exact)
               /\ Fixed_from_f64(F64_neg(fval)) = Ok(ZNeg(out.v))

\* -1/64 scales to the tie -1562.5 and has been stored as -1563
C9_Witness ==
    /\ op = "from_f64"
    /\ fval = FloatLiteral(-1, 64)
    /\ out = Ok(ZOf(-1563))

\* C10 as stated: for n with n * FIXED_DECIMAL in range, Fixed::from(n)
\* stores exactly n * FIXED_DECIMAL and converts back to exactly the float n.
C10_IntRoundTripAll ==
    (/\ op \in {"from_int", "int_to_float"}
     /\ InRange(ZMul(ival, Scale), IntBits))
        => /\ lhs = ZMul(ival, Scale)
           /\ op = "int_to_float" => fval = F64_from_int(ival)

\* C10 as amended: the stored integer is exactly n * FIXED_DECIMAL for every
\* in-range n; the conversion back yields exactly n when |n * FIXED_DECIMAL|
\* is at most 2^53.
C10_IntRoundTrip ==
    (/\ op \in {"from_int", "int_to_float"}
     /\ InRange(ZMul(ival, Scale), IntBits))
        => /\ lhs = ZMul(ival, Scale)
           /\ (op = "int_to_float" /\ ZLe(ZAbs(lhs), ZPow2(MantissaBits)))
                  => fval = F64_from_int(ival)

\* 90071992547 (scaled, just under 2^53) has gone in and come back out
C10_Witness ==
    /\ op = "int_to_float"
    /\ ival = Dec3(900, 7199, 2547)
    /\ lhs = ZMul(ival, Scale)
    /\ fval = F64_from_int(ival)

\* C11: Fixed::from(n) for an integer n with n * FIXED_DECIMAL outside the
\* i64 range fails with an overflow and returns no Fixed, in particular not
\* the low 64 bits of the product.
C11_ConstructionOverflowRaised ==
    (op = "from_int" /\ ~InRange(ZMul(ival, Scale), IntBits))
        => (~out.ok /\ out.err = "overflow")

\* the n-fold product a * a * ... * a with Fixed's `*`, n >= 1
RECURSIVE RepeatedMul(_, _)
RepeatedMul(a, n) ==
    IF n = 1 THEN Ok(a)
    ELSE Bind(RepeatedMul(a, n - 1), LAMBDA p : fixed_binop("mul", p, a))

\* the integer nearest to the exact square root of x >= 0
NearestRoot(x) ==
    LET k == NSqrt(x.mag)
    IN  ZMake(FALSE, IF NCmp(x.mag, NAdd(NMul(k, k), k)) <= 0
                     THEN k ELSE NAdd(k, <<1>>))

\* x >= 0 is the square of an integer
IsSquare(x) == NMul(NSqrt(x.mag), NSqrt(x.mag)) = x.mag

\* C12: -x and x.abs() of the most negative Fixed (stored i64::MIN) fail
\* and return no Fixed; for every other a, -a stores -(a.stored) and a.abs()
\* stores |a.stored|.
C12_MostNegativeNeverWraps ==
    /\ (op \in {"neg", "abs"} /\ arg1 = Int_MIN) => ~out.ok
    /\ (op = "neg" /\ arg1 # Int_MIN) => out = Ok(ZNeg(arg1))
    /\ (op = "abs" /\ arg1 # Int_MIN) => out = Ok(ZAbs(arg1))

\* C13: a.signum() stores +FIXED_DECIMAL for a.stored >= 0 (zero included)
\* and -FIXED_DECIMAL for a.stored < 0; and for a other than the most
\* negative Fixed, a * a.signum() is a.abs().
C13_SignumScaledUnit ==
    op = "signum"
        => /\ out = Ok(IF ZLe(ZZero, arg1) THEN Scale ELSE ZNeg(Scale))
           /\ arg1 # Int_MIN
                  => fixed_binop("mul", arg1, out.v) = Fixed_abs(arg1)

\* signum of -1.0 has been taken: -1.0, and -1.0 * -1.0 is 1.0
C13_Witness ==
    /\ op = "signum"
    /\ arg1 = ZOf(-100000)
    /\ out = Ok(ZOf(-100000))
    /\ fixed_binop("mul", arg1, out.v) = Ok(ZOf(100000))

\* C14: for an exponent n >= 1 for which the n-fold product a * ... * a with
\* Fixed's `*` succeeds, a.powi(n) is that product: a.powi(1) is a,
\* a.powi(2) is a * a, Fixed::from(2).powi(2) is Fixed::from(4).
C14_PowiIsRepeatedMul ==
    \A n \in 1..MaxExp :
        (op = "powi" /\ ival = ZOf(n) /\ RepeatedMul(arg1, n).ok)
            => out = RepeatedMul(arg1, n)

\* C17 as stated: for a >= 0, a.sqrt() stores the integer nearest to the
\* exact square root of a.stored * FIXED_DECIMAL, and a <= b implies
\* a.sqrt() <= b.sqrt().
C17_SqrtCorrectlyRounded ==
    (op = "sqrt" /\ ~arg1.neg)
        => /\ out = Ok(NearestRoot(ZMul(arg1, Scale)))
           /\ (ZLe(arg1, arg2) /\ ~arg2.neg)
                  => ZLe(out.v, Fixed_sqrt(arg2).v)

\* C17 as amended: for a >= 0, a.sqrt() is within one unit in the last place
\* of the integer nearest to the exact root of a.stored * FIXED_DECIMAL, it
\* is the exact root when that product is a perfect square, and a <= b
\* implies a.sqrt() <= b.sqrt().
C17_SqrtNearRoot ==
    (op = "sqrt" /\ ~arg1.neg)
        => /\ out.ok
           /\ ZWithin(out.v, NearestRoot(ZMul(arg1, Scale)), ZOf(1))
           /\ IsSquare(ZMul(arg1, Scale))
                  => out = Ok(ZMake(FALSE, NSqrt(ZMul(arg1, Scale).mag)))
           /\ (ZLe(arg1, arg2) /\ ~arg2.neg)
                  => ZLe(out.v, Fixed_sqrt(arg2).v)

\* the root of 25.0 has been taken and is 5.0
C17_Witness ==
    /\ op = "sqrt"
    /\ arg1 = ZOf(2500000)
    /\ out = Ok(ZOf(500000))

\* the compound form of a binary operator
AssignOf(func) ==
    CASE func = "add" -> "add_assign"
      [] func = "sub" -> "sub_assign"
      [] func = "mul" -> "mul_assign"
      [] func = "div" -> "div_assign"

\* C15: for each of +, -, *, /, after `x = a; x op= b` the outcome is that
\* of `a op b`: x holds the same stored integer, `op=` panics exactly when
\* and as the binary operator does (leaving x as it was), and b is unchanged.
C15_CompoundEqualsBinary ==
    \A func \in BinaryFuncs :
        op = AssignOf(func)
            => /\ out = fixed_binop(func, arg1, arg2)
               /\ lhs = (IF out.ok THEN out.v ELSE arg1)
               /\ rhs = arg2

\* 1.5 *= 30.0 has run and left 45.0
C15_Witness ==
    /\ op = "mul_assign"
    /\ arg1 = ZOf(150000)
    /\ arg2 = ZOf(3000000)
    /\ lhs = ZOf(4500000)
    /\ rhs = arg2

\* |x - y| on the stored integers, before any width applies
Distance(x, y) == ZAbs(ZSub(x, y))

\* C16: a.approximately(b, e) is true exactly when |a.stored - b.stored| <=
\* e.stored, for every a and b, those whose difference does not fit an i64
\* included; it gives the same answer for (b, a); and with e = 0 it is a = b.
C16_ApproximatelyComparesStored ==
    /\ \A k \in 1..Len(approx) :
           approx[k] = OkB(ZLe(Distance(Named(ApproxCalls[k][1]),
                                        Named(ApproxCalls[k][2])), epsilon))
    /\ Len(approx) >= 2 => approx[1] = approx[2]
    /\ (Len(approx) >= 1 /\ epsilon = ZZero) => approx[1] = OkB(lhs = rhs)

\* C18 as stated: if a.approximately(b, e) and b.approximately(c, e) then
\* a.approximately(c, e).
C18_ApproximatelyTransitive ==
    (/\ Len(approx) = 4
     /\ approx[1] = OkB(TRUE)
     /\ approx[3] = OkB(TRUE))
        => approx[4] = OkB(TRUE)

\* C18 as amended: for a, b, c whose pairwise stored differences fit an i64
\* in magnitude, a.approximately(b, e) and b.approximately(c, e) give
\* a.approximately(c, 2e), and a.approximately(c, e) itself when e = 0.
C18_ApproximatelyTriangle ==
    (/\ Len(approx) = 4
     /\ approx[1] = OkB(TRUE)
     /\ approx[3] = OkB(TRUE)
     /\ ZLe(Distance(lhs, rhs), Int_MAX)
     /\ ZLe(Distance(rhs, third), Int_MAX)
     /\ ZLe(Distance(lhs, third), Int_MAX))
        => /\ Fixed_approximately(lhs, third, ZAdd(epsilon, epsilon)) = OkB(TRUE)
           /\ epsilon = ZZero => approx[4] = OkB(TRUE)

\* 0 and 1, 1 and 2 have compared equal at one unit, and 0 and 2 unequal
C18_Witness ==
    /\ Len(approx) = 4
    /\ lhs = ZOf(0) /\ rhs = ZOf(1) /\ third = ZOf(2) /\ epsilon = ZOf(1)
    /\ approx[1] = OkB(TRUE)
    /\ approx[3] = OkB(TRUE)
    /\ approx[4] = OkB(FALSE)

\* the squared length of v is 1 to within 2^-20
UnitLength(v) ==
    ~F64_lt(FloatLiteral(1, 1048576),
            F64_abs(F64_sub(Vector_length_sq(v), ONE)))

\* C19: for every non-zero vector v, one along a coordinate axis included,
\* v.orthogonal() is a non-zero vector of unit length whose dot product with
\* v is zero.
C19_OrthogonalIsUnit ==
    (op = "orthogonal" /\ vector # ZeroVector)
        => /\ out.v # ZeroVector
           /\ Vector_dot(vector, out.v) = ZER
           /\ UnitLength(out.v)

\* C20: the first three rows of Matrix::from_translation_and_orientation(t,
\* r) are those of Matrix::from_orientation(r) and its fourth row is
\* [t.x, t.y, t.z, 1].
C20_TranslationRowEndsInOne ==
    op = "from_translation_and_orientation"
        => /\ \A i \in 1..3 : out.v[i] = Matrix_from_orientation(rotor)[i]
           /\ out.v[4] = <<vector.x, vector.y, vector.z, ONE>>

\* C21: after m.transpose() the element at [i][j] is the one that was at
\* [j][i] before the call, for all 16 pairs of indices; m.transposed()
\* returns that matrix and leaves m as it was; transposing twice gives the
\* matrix back.
C21_TransposeSwapsRowsAndColumns ==
    /\ op = "transpose" =>
           \A i \in 1..4 : \A j \in 1..4 : matrix[i][j] = arg1[j][i]
    /\ op = "transposed" =>
           /\ out.ok
           /\ \A i \in 1..4 : \A j \in 1..4 : out.v[i][j] = arg1[j][i]
           /\ matrix = arg1
    /\ (op = "transpose" /\ prev = "transpose") => matrix = arg2

\* the matrix of the example has been transposed in place and is lower
\* triangular, with 6 at [3][2]
C21_Witness ==
    /\ op = "transpose"
    /\ arg1 = UpperMatrix
    /\ matrix[4][3] = F64_from_int(ZOf(6))
    /\ matrix[3][4] = F64Zero
    /\ matrix # arg1

\* C22: every Percent that Percent::new or Percent::from_ratio returns
\* holds a finite value v with 0 <= v <= 1, whatever the signs of the
\* numerator and the denominator; any other input fails an assertion.
C22_PercentInUnitInterval ==
    (op \in {"new", "from_ratio"} /\ out.ok)
        => /\ F64_is_finite(out.v)
           /\ ~F64_lt(out.v, ZER)
           /\ ~F64_lt(ONE, out.v)

\* a * K, the stored integer of the widened operand
Widened(a) == ZMul(a, ZOf(FULL_FIXED_PRECISION_MULTIPLIER))

\* C23: when the exact quotient a.stored * b.stored / SCALE, truncated
\* toward zero, fits an i64, `a * b` stores exactly that integer, for either
\* sign of the product: the wide multiply holds the product of the widened
\* operands divided by SCALE * K and truncated toward zero, and the
\* narrowing by K loses nothing beyond the one truncation.
C23_MulTruncatesOnce ==
    (op = "mul" /\ InRange(ExactResult("mul", arg1, arg2), IntBits))
        => /\ out = Ok(ZQuot(ZMul(arg1, arg2), Scale))
           /\ FullFixed_mul(Widened(arg1), Widened(arg2))
                  = Ok(ZQuot(ZMul(Widened(arg1), Widened(arg2)),
                             ZOf(FULL_FIXED_DECIMAL)))
           /\ Fixed_from_FullFixed(
                  ZQuot(ZMul(Widened(arg1), Widened(arg2)),
                        ZOf(FULL_FIXED_DECIMAL))) = out

\* -0.00001 * 1.5 is -0.000015 and has been stored as -1, toward zero
C23_Witness ==
    /\ op = "mul"
    /\ arg1 = ZOf(-1)
    /\ arg2 = ZOf(150000)
    /\ out = Ok(ZOf(-1))

\* the 128-bit operation gave the value x itself, without a panic and
\* without a reduction modulo 2^128
Unwrapped(r, x) == r = Ok(x) /\ InRange(x, FullIntBits)

\* C24: for every pair of operands of +, -, * and /, each 128-bit value
\* computed on the way stays inside the i128 range: the widened operands
\* a.stored * K and b.stored * K, their sum or difference, the product
\* (a.stored * K) * (b.stored * K), and the dividend
\* (a.stored * K) * (SCALE * K).
C24_WideNeverOverflows ==
    op \in BinaryFuncs =>
        /\ Unwrapped(FullFixed_from_Fixed(arg1), Widened(arg1))
        /\ Unwrapped(FullFixed_from_Fixed(arg2), Widened(arg2))
        /\ op = "add" =>
               Unwrapped(FullInt_add(Widened(arg1), Widened(arg2)),
                         ZAdd(Widened(arg1), Widened(arg2)))
        /\ op = "sub" =>
               Unwrapped(FullInt_sub(Widened(arg1), Widened(arg2)),
                         ZSub(Widened(arg1), Widened(arg2)))
        /\ op = "mul" =>
               Unwrapped(FullInt_mul(Widened(arg1), Widened(arg2)),
                         ZMul(Widened(arg1), Widened(arg2)))
        /\ op = "div" =>
               Unwrapped(FullInt_mul(Widened(arg1), ZOf(FULL_FIXED_DECIMAL)),
                         ZMul(Widened(arg1), ZOf(FULL_FIXED_DECIMAL)))

\* `a func b` computed in i128 on the stored integers themselves, without
\* the factor K, and cast to i64 as the narrowing casts
BaseScale(func, a, b) ==
    IF func = "div" /\ b = ZZero THEN Panic("divide_by_zero")
    ELSE Ok(Wrap(ExactResult(func, a, b), IntBits))

\* C25: for every pair of operands, the result of +, -, * and / through
\* the wide intermediate at scale SCALE * K is the result of the same
\* operator computed at the base scale: a.stored + b.stored,
\* a.stored - b.stored, a.stored * b.stored / SCALE and
\* a.stored * SCALE / b.stored truncated toward zero; K is taken out once.
C25_ExtraDigitNeverChangesResult ==
    op \in BinaryFuncs => out = BaseScale(op, arg1, arg2)

\* C26: widening loses nothing (FullFixed::from(a) holds a.stored * K, and
\* Fixed::from(FullFixed::from(a)) is a, for every a); narrowing a wide w
\* whose quotient by K fits an i64 stores w / K truncated toward zero.
C26_WidenLosslessNarrowTruncates ==
    /\ op = "widen" => out = Ok(Widened(arg1))
    /\ op = "widen_then_narrow" => out = Ok(arg1)
    /\ (/\ op = "narrow"
        /\ InRange(ZQuot(arg1, ZOf(FULL_FIXED_PRECISION_MULTIPLIER)), IntBits))
           => out = Ok(ZQuot(arg1, ZOf(FULL_FIXED_PRECISION_MULTIPLIER)))

\* the wide -15 has been narrowed to -1, toward zero
C26_Witness ==
    /\ op = "narrow"
    /\ arg1 = ZOf(-15)
    /\ out = Ok(ZOf(-1))

\* C27: for a and b other than the most negative Fixed, b # 0 for `/`, and
\* the result and its negation inside the i64 range, negating an operand
\* of `*` or `/` negates the result: (-a) * b = -(a * b) = a * (-b) and
\* (-a) / b = -(a / b) = a / (-b).
C27_MulDivOddSymmetric ==
    (/\ op \in {"mul", "div"}
     /\ arg1 # Int_MIN
     /\ arg2 # Int_MIN
     /\ ~(op = "div" /\ arg2 = ZZero)
     /\ InRange(ExactResult(op, arg1, arg2), IntBits)
     /\ InRange(ZNeg(ExactResult(op, arg1, arg2)), IntBits))
        => /\ out.ok
           /\ Bind(Fixed_neg(arg1), LAMBDA na : fixed_binop(op, na, arg2))
                  = Fixed_neg(out.v)
           /\ Bind(Fixed_neg(arg2), LAMBDA nb : fixed_binop(op, arg1, nb))
                  = Fixed_neg(out.v)
           /\ Fixed_neg(out.v).ok

\* -9.0 / 333.255 is -0.0270063... and has been stored as -2700, the
\* negation of the 2700 of 9.0 / 333.255
C27_Witness ==
    /\ op = "div"
    /\ arg1 = ZOf(-900000)
    /\ arg2 = ZOf(33325500)
    /\ out = Ok(ZOf(-2700))
    /\ fixed_binop("div", ZOf(900000), arg2) = Ok(ZOf(2700))

\* the operator keeps the order of its left operand for this right operand
Monotone(func, c) ==
    CASE func \in {"add", "sub"} -> TRUE
      [] func = "mul" -> ZLe(ZZero, c)
      [] func = "div" -> ZLt(ZZero, c)

\* C28: for a <= b and c, with both results inside the i64 range,
\* a + c <= b + c and a - c <= b - c; for c >= 0, a * c <= b * c; for
\* c > 0, a / c <= b / c.
C28_ArithmeticMonotone ==
    op \in BinaryFuncs =>
        \A b \in Operands :
            (/\ ZLe(arg1, b)
             /\ Monotone(op, arg2)
             /\ InRange(ExactResult(op, arg1, arg2), IntBits)
             /\ InRange(ExactResult(op, b, arg2), IntBits))
                => /\ out.ok
                   /\ fixed_binop(op, b, arg2).ok
                   /\ ZLe(out.v, fixed_binop(op, b, arg2).v)

\* 10.0 / 30.0 has been stored as 0.33333, below the 10.0 of 300.0 / 30.0
C28_Witness ==
    /\ op = "div"
    /\ arg1 = ZOf(1000000)
    /\ arg2 = ZOf(3000000)
    /\ out = Ok(ZOf(33333))
    /\ fixed_binop("div", ZOf(30000000), arg2) = Ok(ZOf(1000000))

\* value * SCALE lies inside the range of the stored integer
ScaledInRange(value) ==
    LET scaled == F64_mul(value, FIXED_DECIMAL_as_Float)
    IN  /\ ~F64_lt(scaled, F64_from_int(Int_MIN))
        /\ F64_lt(scaled, F64_from_int(Int_MAX))

\* C29: for every x with x * SCALE inside the stored range,
\* Fixed::from_const(x) stores the integer Fixed::from(x) stores, x * SCALE
\* rounded to the nearest integer with halves away from zero: ONE is
\* Fixed::from(1.0), ZERO is Fixed::from(0.0), and a fractional part of one
\* half or more is rounded up in magnitude.
C29_ConstRoundsAsRuntime ==
    (op = "from_const" /\ ScaledInRange(fval))
        => out = Fixed_from_f64(fval)

\* the f64 is an integer
Integral(x) == x.m = <<>> \/ x.e >= 0 \/ NLowBits(x.m, -x.e) = <<>>

\* the integer an integral f64 is
IntegerOf(x) ==
    ZMake(x.neg, IF x.e >= 0 THEN NShl(x.m, x.e) ELSE NShr(x.m, -x.e))

\* u8::MAX, u32::MAX as f64
MaxOf(target) ==
    F64_from_int(ZSub(ZPow2(IF target = "u8" THEN 8 ELSE 32), ZOf(1)))

\* C30: for u8 and u32, from_float(v) is None for every v below zero and
\* every v above the MAX of the type, and Some(n) with n = v for every
\* integer v from 0 to MAX, the u32 values above i32::MAX among them.
C30_FromFloatRangeChecksUnsigned ==
    op \in {"u8", "u32"} =>
        /\ (F64_lt(fval, ZER) \/ F64_lt(MaxOf(op), fval)) => out = None
        /\ (/\ Integral(fval)
            /\ ~F64_lt(fval, ZER)
            /\ ~F64_lt(MaxOf(op), fval)) => out = Some(IntegerOf(fval))

====
